---- MODULE Spec2Model ----
(***************************************************************************)
(* Model of src/index.js: the Global Entry appointment checker.            *)
(*                                                                         *)
(* init() fetches the locations, filters them by state, fans out one slot  *)
(* request per location id under Promise.all, then sorts and prints.       *)
(* JavaScript runs every synchronous segment to completion; a continuation *)
(* (the code after an await) runs only when the main stack is empty.       *)
(***************************************************************************)
EXTENDS Integers, Sequences, FiniteSets, Bags, TLC

\* ---------------------------------------------------------------- bounds
MaxLocs == 2      \* longest location array the remote returns
MaxSlots == 3     \* most slots the remote returns in one run, all requests

\* ------------------------------------------------------- program constants
\* timeZone "America/New_York": the hour (in model time) at which the clock
\* is set back by one hour, so that two instants share one wall-clock string
FallBack == 1

\* The allow-list init passes to getAllLocationIds
InitFilter == {"OH", "KY", "IN", "IL", "TN"}

\* ------------------------------------------------------------ input data
\* Location records the remote may return ({id, name, state})
Catalogue ==
  { [id |-> 1, name |-> "Cincinnati", state |-> "OH"],
    [id |-> 2, name |-> "Louisville", state |-> "KY"],
    [id |-> 3, name |-> "Unknown",    state |-> "NY"] }

States == {"OH", "KY", "NY"}

RECURSIVE SeqsUpTo(_, _)
\* all sequences over S of length at most n
SeqsUpTo(S, n) ==
  IF n = 0 THEN { <<>> }
  ELSE LET shorter == SeqsUpTo(S, n - 1)
       IN  shorter \cup { Append(s, x) : s \in shorter, x \in S }

\* a sequence without repeated elements
Injective(s) == \A i, j \in 1..Len(s) : i # j => s[i] # s[j]

\* location arrays: distinct records of the catalogue, in any order
LocationArrays == { s \in SeqsUpTo(Catalogue, MaxLocs) : Injective(s) }

\* slot start timestamps (hours): before, at and after the fall-back
Timestamps == 0..(FallBack + 1)

\* slot records the remote may return to the request for locationId: the
\* slot names the requested location or location 3
SlotsFor(locationId) ==
  { [locationId |-> l, startTimestamp |-> t, endTimestamp |-> t + 1] :
      l \in {locationId, 3}, t \in Timestamps }

\* slot arrays of at most n slots
SlotArrays(locationId, n) == SeqsUpTo(SlotsFor(locationId), n)

\* HTTP statuses of a response that did arrive
Statuses == {200, 500}

\* ------------------------------------------------------- pure functions
RECURSIVE FilterSeqSkipsAfterHit(_, _)
\* a filter that skips the element after each one it keeps
FilterSeqSkipsAfterHit(locs, filter) ==
  IF locs = <<>> THEN <<>>
  ELSE IF Head(locs).state \in filter
       THEN <<Head(locs)>> \o
            (IF Len(locs) > 1
             THEN FilterSeqSkipsAfterHit(Tail(Tail(locs)), filter)
             ELSE <<>>)
       ELSE FilterSeqSkipsAfterHit(Tail(locs), filter)

RECURSIVE FilterSeq(_, _)
\* Array.prototype.filter with the predicate of getAllLocationIds
FilterSeq(locs, filter) ==
  IF locs = <<>> THEN <<>>
  ELSE IF Head(locs).state \in filter
       THEN <<Head(locs)>> \o FilterSeq(Tail(locs), filter)
       ELSE FilterSeq(Tail(locs), filter)

RECURSIVE Reverse(_)
Reverse(seq) ==
  IF seq = <<>> THEN <<>> ELSE Append(Reverse(Tail(seq)), Head(seq))

\* the ids of the matching locations, last match first
getAllLocationIdsReversed(locs, filter) ==
  LET filteredData == Reverse(FilterSeq(locs, filter))
  IN  [i \in 1..Len(filteredData) |-> filteredData[i].id]

\* the ids of all locations, whatever their state
getAllLocationIdsUnfiltered(locs, filter) ==
  [i \in 1..Len(locs) |-> locs[i].id]

\* getAllLocationIds(locations, filter)
getAllLocationIds(locs, filter) ==
  LET filteredData == FilterSeq(locs, filter)
  IN  [i \in 1..Len(filteredData) |-> filteredData[i].id]

\* a find whose comparison never succeeds (an id compared with === to a
\* value of another type)
FindNever(locs, id) == [found |-> FALSE, name |-> ""]

RECURSIVE Find(_, _)
\* locations.find(loc => loc.id === id): the first match, or the record
\* [found |-> FALSE] for undefined
Find(locs, id) ==
  IF locs = <<>> THEN [found |-> FALSE, name |-> ""]
  ELSE IF Head(locs).id = id
       THEN [found |-> TRUE, name |-> Head(locs).name]
       ELSE Find(Tail(locs), id)

\* new Date(ts).toLocaleString("en-US", {timeZone: "America/New_York"}):
\* the wall-clock reading, which repeats one hour at the fall-back
ToLocaleString(ts) == IF ts < FallBack THEN ts ELSE ts - 1

\* new Date(str) of a wall-clock string, as a number
DateParse(str) == str

\* the callback of data.map in getAvailableAppointments
ToAppointment(locs, appointment) ==
  LET location == Find(locs, appointment.locationId)
  IN  [location |-> IF location.found THEN location.name ELSE "Unknown",
       start |-> ToLocaleString(appointment.startTimestamp),
       end |-> ToLocaleString(appointment.endTimestamp)]

MapAppointments(locs, data) ==
  [k \in 1..Len(data) |-> ToAppointment(locs, data[k])]

\* an accumulator that is replaced instead of appended to
PushOverwrites(all, items) == items

\* allAppointments.push(...availableAppointments)
Push(all, items) == all \o items

\* the comparator with its operands swapped
CompareSwapped(a, b) == DateParse(b.start) - DateParse(a.start)

\* the comparator of the sort in init
Compare(a, b) == DateParse(a.start) - DateParse(b.start)

RECURSIVE Insert(_, _)
\* insert x after every element that does not compare greater than it
Insert(sorted, x) ==
  IF sorted = <<>> THEN <<x>>
  ELSE IF Compare(Head(sorted), x) > 0
       THEN <<x>> \o sorted
       ELSE <<Head(sorted)>> \o Insert(Tail(sorted), x)

RECURSIVE SortFrom(_, _)
SortFrom(sorted, rest) ==
  IF rest = <<>> THEN sorted
  ELSE SortFrom(Insert(sorted, Head(rest)), Tail(rest))

\* Array.prototype.sort with Compare (a stable sort)
Sort(arr) == SortFrom(<<>>, arr)

\* the line printed for one appointment
AppointmentLine(appointment) ==
  [line |-> "appointment", location |-> appointment.location,
   start |-> appointment.start]

BannerLine(text) == [line |-> text, location |-> "", start |-> 0]

PrintAll(arr) == [k \in 1..Len(arr) |-> AppointmentLine(arr[k])]

\* ---------------------------------------------------------------- state
VARIABLES
  pc,            \* where init() is: start, fetchLocations, jsonLocations,
                 \* map, awaitAll, returned, done, threw
  out,           \* the lines written by console.log
  locCall,       \* the location call: idle, fetching, netfail, json,
                 \* malformed, object, array
  httpError,     \* some response so far had a non-success HTTP status
  locations,     \* init's locations
  filter,        \* the allow-list passed to getAllLocationIds
  locationIds,   \* init's locationIds
  reqUrl,        \* per slot request, in launch order: the locationId of
                 \* the URL fetched
  reqCall,       \* per slot request, in launch order: fetching, netfail,
                 \* json, malformed, object, array
  reqData,       \* per slot request: data, the parsed slot array
  availableAppointments,  \* per slot request: the callback's local
  allAppointments,        \* the shared accumulator
  appointments   \* init's appointments (the same array as allAppointments)

vars == <<pc, out, locCall, httpError, locations, filter, locationIds,
          reqUrl, reqCall, reqData, availableAppointments, allAppointments,
          appointments>>

Failed == {"netfail", "malformed", "object"}

\* Promise.allSettled: fulfilled when every callback has settled
PromiseAllSettled(calls, n) ==
  IF Len(calls) = n /\ \A i \in 1..n : calls[i] \in Failed \cup {"array"}
  THEN "fulfilled"
  ELSE "pending"

\* Promise.race: settled as the first callback that settles
PromiseRace(calls, n) ==
  IF \E i \in 1..Len(calls) : calls[i] \in Failed THEN "rejected"
  ELSE IF n = 0 \/ \E i \in 1..Len(calls) : calls[i] = "array"
       THEN "fulfilled"
       ELSE "pending"

\* the state of the promise of Promise.all over the launched callbacks:
\* rejected with the first rejection, fulfilled when all are fulfilled
PromiseAll(calls, n) ==
  IF \E i \in 1..Len(calls) : calls[i] \in Failed THEN "rejected"
  ELSE IF Len(calls) = n /\ \A i \in 1..n : calls[i] = "array" THEN "fulfilled"
  ELSE "pending"

\* continuations that may preempt a synchronous segment
MainIdlePreempted(p) == TRUE

\* run to completion: a continuation runs only between synchronous
\* segments, so never inside locationIds.map
MainIdle(p) == p # "map"

\* lines 94-96: console.clear, the banner, and the call of init
Init ==
  /\ pc = "start"
  /\ out = << BannerLine("Starting appointment checker...") >>
  /\ locCall = "idle"
  /\ httpError = FALSE
  /\ locations = <<>>
  /\ filter = InitFilter
  /\ locationIds = <<>>
  /\ reqUrl = <<>>
  /\ reqCall = <<>>
  /\ reqData = <<>>
  /\ availableAppointments = <<>>
  /\ allAppointments = <<>>
  /\ appointments = <<>>

\* init up to its first await: the log line and the fetch of getAllLocations
InitStart ==
  /\ pc = "start"
  /\ out' = Append(out, BannerLine("Checking for appointments..."))
  /\ locCall' = "fetching"
  /\ pc' = "fetchLocations"
  /\ UNCHANGED <<httpError, locations, filter, locationIds, reqUrl, reqCall,
                 reqData, availableAppointments, allAppointments,
                 appointments>>

\* the fetch of getAllLocations rejects: the error leaves init
LocFetchFail ==
  /\ pc = "fetchLocations"
  /\ locCall' = "netfail"
  /\ pc' = "threw"
  /\ UNCHANGED <<out, httpError, locations, filter, locationIds, reqUrl,
                 reqCall, reqData, availableAppointments, allAppointments,
                 appointments>>

\* the fetch of getAllLocations resolves with a response of any status,
\* and response.json() is called
LocFetchOk ==
  /\ pc = "fetchLocations"
  /\ \E status \in Statuses : httpError' = (httpError \/ status # 200)
  /\ locCall' = "json"
  /\ pc' = "jsonLocations"
  /\ UNCHANGED <<out, locations, filter, locationIds, reqUrl, reqCall,
                 reqData, availableAppointments, allAppointments,
                 appointments>>

\* the rejection of response.json() caught and replaced by an empty array
LocJsonFailCaught ==
  /\ pc = "jsonLocations"
  /\ locCall' = "malformed"
  /\ locations' = <<>>
  /\ locationIds' = <<>>
  /\ pc' = "map"
  /\ UNCHANGED <<out, httpError, filter, reqUrl, reqCall, reqData,
                 availableAppointments, allAppointments, appointments>>

\* response.json() rejects: the body is not JSON
LocJsonFail ==
  /\ pc = "jsonLocations"
  /\ locCall' = "malformed"
  /\ pc' = "threw"
  /\ UNCHANGED <<out, httpError, locations, filter, locationIds, reqUrl,
                 reqCall, reqData, availableAppointments, allAppointments,
                 appointments>>

\* the body is JSON but no array: locations.filter is not a function
LocJsonObject ==
  /\ pc = "jsonLocations"
  /\ locCall' = "object"
  /\ pc' = "threw"
  /\ UNCHANGED <<out, httpError, locations, filter, locationIds, reqUrl,
                 reqCall, reqData, availableAppointments, allAppointments,
                 appointments>>

\* the body is an array: getAllLocations returns it, init filters it and
\* enters getAvailableAppointments
LocJsonArray ==
  /\ pc = "jsonLocations"
  /\ \E data \in LocationArrays :
       /\ locations' = data
       /\ locationIds' = getAllLocationIds(data, filter)
  /\ locCall' = "array"
  /\ pc' = "map"
  /\ UNCHANGED <<out, httpError, filter, reqUrl, reqCall, reqData,
                 availableAppointments, allAppointments, appointments>>

\* locationIds.map: the next callback runs up to its fetch
LaunchNext ==
  /\ pc = "map"
  /\ Len(reqCall) < Len(locationIds)
  /\ reqUrl' = Append(reqUrl, locationIds[Len(reqCall) + 1])
  /\ reqCall' = Append(reqCall, "fetching")
  /\ reqData' = Append(reqData, <<>>)
  /\ availableAppointments' = Append(availableAppointments, <<>>)
  /\ UNCHANGED <<pc, out, locCall, httpError, locations, filter, locationIds,
                 allAppointments, appointments>>

\* locationIds.map is over: Promise.all is awaited
LaunchDone ==
  /\ pc = "map"
  /\ Len(reqCall) = Len(locationIds)
  /\ pc' = "awaitAll"
  /\ UNCHANGED <<out, locCall, httpError, locations, filter, locationIds,
                 reqUrl, reqCall, reqData, availableAppointments,
                 allAppointments, appointments>>

\* the fetch of request i rejects
ReqFetchFail(i) ==
  /\ MainIdle(pc)
  /\ reqCall[i] = "fetching"
  /\ reqCall' = [reqCall EXCEPT ![i] = "netfail"]
  /\ UNCHANGED <<pc, out, locCall, httpError, locations, filter, locationIds,
                 reqUrl, reqData, availableAppointments, allAppointments,
                 appointments>>

\* the fetch of request i resolves with a response of any status, and
\* response.json() is called
ReqFetchOk(i) ==
  /\ MainIdle(pc)
  /\ reqCall[i] = "fetching"
  /\ \E status \in Statuses : httpError' = (httpError \/ status # 200)
  /\ reqCall' = [reqCall EXCEPT ![i] = "json"]
  /\ UNCHANGED <<pc, out, locCall, locations, filter, locationIds, reqUrl,
                 reqData, availableAppointments, allAppointments,
                 appointments>>

\* response.json() of request i rejects: the body is not JSON
ReqJsonFail(i) ==
  /\ MainIdle(pc)
  /\ reqCall[i] = "json"
  /\ reqCall' = [reqCall EXCEPT ![i] = "malformed"]
  /\ UNCHANGED <<pc, out, locCall, httpError, locations, filter, locationIds,
                 reqUrl, reqData, availableAppointments, allAppointments,
                 appointments>>

\* the body of request i is JSON but no array: data.map is not a function
ReqJsonObject(i) ==
  /\ MainIdle(pc)
  /\ reqCall[i] = "json"
  /\ reqCall' = [reqCall EXCEPT ![i] = "object"]
  /\ UNCHANGED <<pc, out, locCall, httpError, locations, filter, locationIds,
                 reqUrl, reqData, availableAppointments, allAppointments,
                 appointments>>

\* the body of request i is an array: the callback maps it and pushes the
\* appointments onto allAppointments
ReqJsonArray(i) ==
  /\ MainIdle(pc)
  /\ reqCall[i] = "json"
  /\ \E data \in SlotArrays(reqUrl[i], MaxSlots - Len(allAppointments)) :
       LET mapped == MapAppointments(locations, data)
       IN  /\ reqData' = [reqData EXCEPT ![i] = data]
           /\ availableAppointments' =
                [availableAppointments EXCEPT ![i] = mapped]
           /\ allAppointments' = Push(allAppointments, mapped)
  /\ reqCall' = [reqCall EXCEPT ![i] = "array"]
  /\ UNCHANGED <<pc, out, locCall, httpError, locations, filter, locationIds,
                 reqUrl, appointments>>

\* Promise.all is fulfilled: getAvailableAppointments returns allAppointments
Return ==
  /\ pc = "awaitAll"
  /\ PromiseAll(reqCall, Len(locationIds)) = "fulfilled"
  /\ appointments' = allAppointments
  /\ pc' = "returned"
  /\ UNCHANGED <<out, locCall, httpError, locations, filter, locationIds,
                 reqUrl, reqCall, reqData, availableAppointments,
                 allAppointments>>

\* Promise.all is rejected: the error leaves getAvailableAppointments and init
Throw ==
  /\ pc = "awaitAll"
  /\ PromiseAll(reqCall, Len(locationIds)) = "rejected"
  /\ pc' = "threw"
  /\ UNCHANGED <<out, locCall, httpError, locations, filter, locationIds,
                 reqUrl, reqCall, reqData, availableAppointments,
                 allAppointments, appointments>>

\* init with a non-empty result: sort in place, one line per appointment
PrintAppointments ==
  /\ pc = "returned"
  /\ Len(appointments) # 0
  /\ LET sorted == Sort(appointments)
     IN  /\ appointments' = sorted
         /\ allAppointments' = sorted
         /\ out' = out \o PrintAll(sorted)
  /\ pc' = "done"
  /\ UNCHANGED <<locCall, httpError, locations, filter, locationIds, reqUrl,
                 reqCall, reqData, availableAppointments>>

\* init with an empty result
PrintNone ==
  /\ pc = "returned"
  /\ Len(appointments) = 0
  /\ out' = Append(out, BannerLine("No appointments found."))
  /\ pc' = "done"
  /\ UNCHANGED <<locCall, httpError, locations, filter, locationIds, reqUrl,
                 reqCall, reqData, availableAppointments, allAppointments,
                 appointments>>

Next ==
  \/ InitStart
  \/ LocFetchFail
  \/ LocFetchOk
  \/ LocJsonFail
  \/ LocJsonObject
  \/ LocJsonArray
  \/ LaunchNext
  \/ LaunchDone
  \/ \E i \in 1..Len(reqCall) : ReqFetchFail(i)
  \/ \E i \in 1..Len(reqCall) : ReqFetchOk(i)
  \/ \E i \in 1..Len(reqCall) : ReqJsonFail(i)
  \/ \E i \in 1..Len(reqCall) : ReqJsonObject(i)
  \/ \E i \in 1..Len(reqCall) : ReqJsonArray(i)
  \/ Return
  \/ Throw
  \/ PrintAppointments
  \/ PrintNone

Spec == Init /\ [][Next]_vars

\* ------------------------------------------------ getAllLocationIds alone
\* allow-lists and location arrays getAllLocationIds is called with
FilterArgs == SUBSET States

AnyLocationArrays == SeqsUpTo(Catalogue, MaxLocs)

FilterInit ==
  /\ pc = "filterCall"
  /\ out = <<>>
  /\ locCall = "idle"
  /\ httpError = FALSE
  /\ locations \in AnyLocationArrays
  /\ filter \in FilterArgs
  /\ locationIds = <<>>
  /\ reqUrl = <<>>
  /\ reqCall = <<>>
  /\ reqData = <<>>
  /\ availableAppointments = <<>>
  /\ allAppointments = <<>>
  /\ appointments = <<>>

\* a first call of getAllLocationIds(locations, filter)
FilterCall ==
  /\ pc = "filterCall"
  /\ locationIds' = getAllLocationIds(locations, filter)
  /\ pc' = "filterReturned"
  /\ UNCHANGED <<out, locCall, httpError, locations, filter, reqUrl, reqCall,
                 reqData, availableAppointments, allAppointments,
                 appointments>>

\* a second call on the same arguments
FilterAgain ==
  /\ pc = "filterReturned"
  /\ locationIds' = getAllLocationIds(locations, filter)
  /\ pc' = "filterRepeated"
  /\ UNCHANGED <<out, locCall, httpError, locations, filter, reqUrl, reqCall,
                 reqData, availableAppointments, allAppointments,
                 appointments>>

FilterNext == FilterCall \/ FilterAgain

SpecFilter == FilterInit /\ [][FilterNext]_vars

\* ----------------------------------------------------------------- claims
\* indices of the locations whose state is in the allow-list
Matching == { j \in 1..Len(locations) : locations[j].state \in filter }

\* the k-th smallest element of a set of numbers
Kth(S, k) == CHOOSE j \in S : Cardinality({ m \in S : m < j }) = k - 1

FilterHasReturned == pc \in {"filterReturned", "filterRepeated"}

\* C1: getAllLocationIds(L, F) returns exactly the ids of the locations of L
\* whose state is in F: every returned id belongs to such a location, no
\* such location is omitted (one id per matching location), and an empty F
\* yields an empty result.
C1_ExactlyTheMatchingIds ==
  FilterHasReturned =>
    /\ \A k \in 1..Len(locationIds) :
         \E j \in Matching : locations[j].id = locationIds[k]
    /\ \A j \in Matching :
         \E k \in 1..Len(locationIds) : locationIds[k] = locations[j].id
    /\ Len(locationIds) = Cardinality(Matching)
    /\ (filter = {} => locationIds = <<>>)

\* C1 witness: a call that kept some locations and dropped others
C1_Witness ==
  /\ pc = "filterReturned"
  /\ Len(locationIds) > 0
  /\ Len(locationIds) < Len(locations)

\* C2: getAllLocationIds is a stable, deterministic filter: the ids come in
\* the order of their locations in the input, the input is left unchanged,
\* and a second call on the same input returns the same sequence.
C2_StableDeterministic ==
  /\ [](FilterHasReturned =>
          /\ Len(locationIds) = Cardinality(Matching)
          /\ \A k \in 1..Len(locationIds) :
               locationIds[k] = locations[Kth(Matching, k)].id)
  /\ [][/\ locations' = locations
        /\ filter' = filter
        /\ (pc = "filterReturned" => locationIds' = locationIds)]_vars

\* C2 witness: a repeated call that returned two different ids
C2_Witness ==
  /\ pc = "filterRepeated"
  /\ Len(locationIds) = 2
  /\ locationIds[1] # locationIds[2]

\* ------------------------------------------------------- the whole run
Requests == 1..Len(reqCall)

Pending == { i \in Requests : reqCall[i] \in {"fetching", "json"} }

SomeRequestFailed == \E i \in Requests : reqCall[i] \in Failed

\* the lines init prints for its result
ResultLines ==
  SelectSeq(out, LAMBDA l :
    l.line \in {"appointment", "No appointments found."})

\* the slots of request i, with the appointment made of each
SlotPlaces ==
  { <<i, k>> \in Requests \X (1..MaxSlots + 1) :
      reqCall[i] = "array" /\ k <= Len(reqData[i]) }

\* indices of the locations whose id is the slot's locationId
MatchesOf(slot) ==
  { j \in 1..Len(locations) : locations[j].id = slot.locationId }

\* C3 as stated: the location field is the name of a location with the
\* slot's locationId or "Unknown", and it is "Unknown" if and only if no
\* location has that id.
C3_UnknownIffNoMatch ==
  \A p \in SlotPlaces :
    LET slot == reqData[p[1]][p[2]]
        field == availableAppointments[p[1]][p[2]].location
    IN  /\ \/ field = "Unknown"
           \/ \E j \in MatchesOf(slot) : field = locations[j].name
        /\ (field = "Unknown" <=> MatchesOf(slot) = {})

\* C3 amended: one appointment per slot; the location field is "Unknown"
\* whenever no location has the slot's locationId, and otherwise it is the
\* name of the first location with that id (which may itself be the string
\* "Unknown").
C3_UnknownIfNoMatchElseFirstName ==
  /\ \A i \in Requests :
       reqCall[i] = "array" =>
         Len(availableAppointments[i]) = Len(reqData[i])
  /\ \A p \in SlotPlaces :
       LET slot == reqData[p[1]][p[2]]
           field == availableAppointments[p[1]][p[2]].location
       IN  /\ MatchesOf(slot) = {} => field = "Unknown"
           /\ MatchesOf(slot) # {} =>
                field = locations[Kth(MatchesOf(slot), 1)].name

\* C3 witness: one response with a slot of a listed location, named
\* otherwise than "Unknown", and a slot of an unlisted location
C3_Witness ==
  \E p, q \in SlotPlaces :
    /\ p[1] = q[1]
    /\ MatchesOf(reqData[p[1]][p[2]]) # {}
    /\ availableAppointments[p[1]][p[2]].location # "Unknown"
    /\ MatchesOf(reqData[q[1]][q[2]]) = {}
    /\ availableAppointments[q[1]][q[2]].location = "Unknown"

\* C4: once a slot request has failed, getAvailableAppointments never
\* returns a value to init, and neither an appointment line nor the "No
\* appointments found." line is printed, whatever the other requests did.
C4_AllOrNothing ==
  SomeRequestFailed =>
    /\ pc \notin {"returned", "done"}
    /\ appointments = <<>>
    /\ ResultLines = <<>>

\* C4 witness: the run ended by an error although another request had
\* delivered appointments
C4_Witness ==
  /\ pc = "threw"
  /\ SomeRequestFailed
  /\ \E i \in Requests :
       reqCall[i] = "array" /\ availableAppointments[i] # <<>>
  /\ allAppointments # <<>>

\* C5 as stated: control is back in init, by value or by error, only when
\* no slot request is pending.
C5_SuspendedUntilAllSettle ==
  pc \in {"returned", "done", "threw"} => Pending = {}

\* C5 amended: control returns to init by value only when every slot request
\* has completed; it returns by error from the fan-out only after a request
\* has failed, and then other requests may still be pending.
C5_SuspendedUntilAllDoneOrOneFails ==
  /\ pc \in {"returned", "done"} =>
       /\ Len(reqCall) = Len(locationIds)
       /\ \A i \in Requests : reqCall[i] = "array"
  /\ (pc = "threw" /\ locCall = "array") => SomeRequestFailed

\* C5 witness: init has thrown on the first failure, another request pending
C5_Witness ==
  /\ pc = "threw"
  /\ SomeRequestFailed
  /\ Pending # {}

\* C6: one slot request per element of locationIds, in order; every one is
\* started before any response is processed; none before the location fetch
\* has completed.
C6_AllLaunchedFirst ==
  /\ reqCall # <<>> => locCall = "array"
  /\ Len(reqUrl) <= Len(locationIds)
  /\ \A i \in 1..Len(reqUrl) : reqUrl[i] = locationIds[i]
  /\ (\E i \in Requests : reqCall[i] # "fetching") => reqUrl = locationIds
  /\ pc \in {"awaitAll", "returned", "done"} => reqUrl = locationIds
  /\ (pc = "threw" /\ locCall = "array") => reqUrl = locationIds

\* C6 witness: two requests in flight, no response processed yet
C6_Witness ==
  /\ pc = "awaitAll"
  /\ Len(reqCall) = 2
  /\ \A i \in Requests : reqCall[i] = "fetching"

\* a remote call that failed: no response, or a body that is no JSON array
CallFailed == locCall \in Failed \/ SomeRequestFailed

\* C7 as stated: after a network failure, a non-success status or a
\* malformed body in either remote call, init does not get to its result
\* and prints no result line.
C7_AnyFailurePropagates ==
  (CallFailed \/ httpError) =>
    /\ pc \notin {"returned", "done"}
    /\ ResultLines = <<>>

\* C7 amended: a network failure or a malformed body (not JSON, or not an
\* array) in either remote call leaves init as an error: init does not get
\* to its result, no result line is printed and no further request is
\* issued. A non-success status alone is no failure: the body is used.
C7_NetworkOrBodyFailurePropagates ==
  /\ [](CallFailed =>
          /\ pc \in {"awaitAll", "threw"}
          /\ (locCall \in Failed => pc = "threw" /\ reqUrl = <<>>)
          /\ ResultLines = <<>>)
  /\ [][CallFailed =>
          /\ reqUrl' = reqUrl
          /\ pc' \in {pc, "threw"}
          /\ out' = out]_vars

\* C7 witness: the location body was not JSON and init has thrown
C7_Witness ==
  /\ pc = "threw"
  /\ locCall = "malformed"
  /\ httpError

RECURSIVE Flatten(_)
\* the concatenation of a sequence of sequences
Flatten(seqs) ==
  IF seqs = <<>> THEN <<>> ELSE Head(seqs) \o Flatten(Tail(seqs))

\* the bag of the elements of a sequence
BagOf(seq) ==
  LET range == { seq[i] : i \in 1..Len(seq) }
  IN  [x \in range |-> Cardinality({ i \in 1..Len(seq) : seq[i] = x })]

\* C8: after a run where all requests succeeded with a non-empty aggregate,
\* the result lines are one appointment line per aggregated appointment
\* (none lost, none added) in non-decreasing order of the start they show.
C8_PrintedSortedByStart ==
  (pc = "done" /\ appointments # <<>>) =>
    /\ Len(ResultLines) = Len(Flatten(reqData))
    /\ BagOf(ResultLines) = BagOf(PrintAll(Flatten(availableAppointments)))
    /\ \A k \in 1..Len(ResultLines) - 1 :
         DateParse(ResultLines[k].start) <= DateParse(ResultLines[k + 1].start)
    /\ out = SubSeq(out, 1, 2) \o ResultLines

\* C8 witness: two responses, the one that completed first starting later
C8_Witness ==
  /\ pc = "done"
  /\ Len(reqCall) = 2
  /\ Len(appointments) = 3
  /\ \E i, j \in Requests :
       /\ Len(availableAppointments[i]) = 2
       /\ Len(availableAppointments[j]) = 1
       /\ availableAppointments[i][1].start > availableAppointments[i][2].start
       /\ availableAppointments[j][1].start < availableAppointments[i][1].start
  /\ LET slots == Flatten(reqData)
     IN  \E a, b \in 1..Len(slots) :
           /\ slots[a].startTimestamp # slots[b].startTimestamp
           /\ appointments[1].start = ToLocaleString(slots[a].startTimestamp)
           /\ appointments[1].start = ToLocaleString(slots[b].startTimestamp)

\* C9: an empty aggregate ends with the "No appointments found." line as
\* the only result line, after the two status lines; when no location is in
\* the allow-list no slot request is issued and init does not throw.
C9_EmptyPrintsNoneFound ==
  /\ (pc = "done" /\ appointments = <<>>) =>
       out = << BannerLine("Starting appointment checker..."),
                BannerLine("Checking for appointments..."),
                BannerLine("No appointments found.") >>
  /\ (pc = "returned" /\ appointments = <<>>) => ENABLED PrintNone
  /\ (locCall = "array" /\ Matching = {}) =>
       /\ reqUrl = <<>>
       /\ pc \in {"map", "awaitAll", "returned", "done"}
       /\ pc = "awaitAll" => ENABLED Return

\* C9 witness: locations were returned, none of them in the allow-list, and
\* the run has ended
C9_Witness ==
  /\ pc = "done"
  /\ locations # <<>>
  /\ Matching = {}
  /\ appointments = <<>>

\* the orders in which n requests can complete
Orders(n) ==
  { o \in [1..n -> 1..n] : \A i, j \in 1..n : i # j => o[i] # o[j] }

\* C10: when every request succeeded, the returned collection is, for some
\* order of the requests, the concatenation of their responses' appointments:
\* one appointment per slot, each response contiguous and in response order.
C10_AggregateIsConcatenation ==
  pc = "returned" =>
    /\ appointments = allAppointments
    /\ Len(appointments) = Len(Flatten(reqData))
    /\ \E o \in Orders(Len(reqCall)) :
         appointments =
           Flatten([i \in Requests |-> availableAppointments[o[i]]])

\* C10 witness: the second request completed first, with two appointments
C10_Witness ==
  /\ pc = "returned"
  /\ Len(reqCall) = 2
  /\ Len(availableAppointments[2]) = 2
  /\ Len(availableAppointments[1]) = 1
  /\ appointments = availableAppointments[2] \o availableAppointments[1]
  /\ appointments # availableAppointments[1] \o availableAppointments[2]

====
